---- MODULE Spec2Model ----
(***************************************************************************)
(* Model of src/app/app.py: the keypoint labelling tool.                   *)
(*                                                                         *)
(* The state is the fields of LabelWidget together with the Python objects *)
(* they reference.  Persons and LabeledPerson are mutable objects that the *)
(* code shares between the displayed image widget and the Dataset, so both *)
(* live in heaps keyed by object identity.  Every slot (button, combo box  *)
(* signal) is one action; a slot that raises keeps the assignments it made *)
(* before the exception, as the Qt event loop reports the exception and    *)
(* carries on.                                                             *)
(***************************************************************************)
EXTENDS Integers, Sequences, FiniteSets, TLC

VARIABLES
    image_fpaths,        \* LabelWidget.image_fpaths: list of image names
    files,               \* image files still present in data_dir
    current_image_idx,   \* LabelWidget.current_image_idx (None or int)
    current_image_fpath, \* LabelWidget.current_image_fpath (None or name)
    dataset,             \* Dataset.data: image name -> Persons object id
    persons_heap,        \* Persons objects: id -> [persons, active_person_idx]
    person_heap,         \* LabeledPerson objects: id -> labels (ordered dict)
    image_widget,        \* image_widget.persons: Persons object id (None: no widget)
    person_selector,     \* QComboBox: [count, index]
    image_selector,      \* QComboBox: [count, index]; its items never change
    keypoint_button,     \* index of the checked radio button in `names`
    dataset_file,        \* dataset.json: <<>> if missing, else <<json>>
    watch_file,          \* whether the model keeps what is written to dataset.json
    left_labels,         \* history: labels an image had when it was last left
    pc,                  \* "init" inside __init__ before line 250, then "ready"
    last,                \* history: the last slot run and how it ended
    person,              \* a LabeledPerson used on its own: its labels
    pset,                \* a Persons used on its own: [persons, active_person_idx]
    out                  \* the last call made on person or pset and its result

vars == <<image_fpaths, files, current_image_idx, current_image_fpath, dataset,
          persons_heap, person_heap, image_widget, person_selector,
          image_selector, keypoint_button, dataset_file, watch_file,
          left_labels, pc, last, person, pset, out>>

\* last is the last slot that changed a field of the program: op names it
\* (the slots that set or remove labels or only move a selection are all
\* recorded as "edit"), end says how it ended, from is the cursor a navigation
\* started from, and back says whether the image it loaded came back as it
\* was left.

-----------------------------------------------------------------------------
(* Bounds of the model *)

MaxImages == 3      \* images found in data_dir at start (one fewer under
                    \* SpecPersons and SpecFile)
MaxPersons == 2     \* add_person is offered while fewer persons are shown
                    \* (one fewer under Spec)
MaxKpt == 1         \* the user labels only the first MaxKpt keypoint buttons
MaxCoord == 0       \* click positions <<c, c + 1>>, c in 0..MaxCoord
MaxOverrun == 1     \* next_image is offered while the cursor is less than
                    \* MaxOverrun past the last image

MaxNames == 4       \* a LabeledPerson used on its own is given the first
                    \* MaxNames names of the catalog
MaxXY == 2          \* and positions <<x, x + 1>>, x in 1..MaxXY

MaxAlone == 3       \* a Persons used on its own holds at most MaxAlone
                    \* persons and delete is called with an index from
                    \* -(MaxAlone + 1) to MaxAlone + 1

(* Python's None for the int/name/id valued fields, none of which the code  *)
(* ever sets to a negative number.                                          *)
None == -1

-----------------------------------------------------------------------------
(* Keypoint vocabulary *)

keypoint_names ==
    << "nose", "left_shoulder", "right_shoulder", "left_elbow", "right_elbow",
       "left_wrist", "right_wrist", "left_hip", "right_hip", "left_knee",
       "right_knee", "clubhead", "shaftcenter", "ball" >>

names ==
    << "clubhead", "shaftcenter", "ball", "nose", "left_shoulder",
       "right_shoulder", "left_elbow", "right_elbow", "left_wrist",
       "right_wrist", "left_hip", "right_hip", "left_knee", "right_knee" >>

ClickPositions == { <<c, c + 1>> : c \in 0..MaxCoord }

-----------------------------------------------------------------------------
(* Python containers *)

Range(f) == { f[x] : x \in DOMAIN f }

\* list[i] for a Python index i into a list of length n
InRange(i, n) == i >= -n /\ i < n

Norm(i, n) == IF i < 0 THEN i + n + 1 ELSE i + 1

ListDel(seq, i) ==
    LET k == Norm(i, Len(seq))
    IN [j \in 1..(Len(seq) - 1) |-> IF j < k THEN seq[j] ELSE seq[j + 1]]

DictPut(d, k, v) == [x \in (DOMAIN d) \cup {k} |-> IF x = k THEN v ELSE d[x]]

DictDel(d, k) == [x \in (DOMAIN d) \ {k} |-> d[x]]

\* a fresh object identity
NewId(heap) ==
    CHOOSE i \in 1..(Cardinality(DOMAIN heap) + 1) :
        /\ i \notin DOMAIN heap
        /\ \A j \in 1..(i - 1) : j \in DOMAIN heap

-----------------------------------------------------------------------------
(* LabeledPerson: labels is a dict in insertion order, a sequence of        *)
(* [name, pos] entries with distinct names.                                 *)

HasLabel(labels, name) == \E i \in 1..Len(labels) : labels[i].name = name

LabeledPerson_setitem(labels, name, pos) ==
    IF HasLabel(labels, name)
    THEN [i \in 1..Len(labels) |->
            IF labels[i].name = name THEN [name |-> name, pos |-> pos]
            ELSE labels[i]]
    ELSE Append(labels, [name |-> name, pos |-> pos])

LabeledPerson_remove(labels, name) ==
    SelectSeq(labels, LAMBDA e : e.name # name)

\* to_json writing [p.y, p.x]
LabeledPerson_to_json_yx(labels) ==
    [i \in 1..Len(labels) |-> [name |-> labels[i].name,
                               xy |-> <<labels[i].pos[2], labels[i].pos[1]>>]]

LabeledPerson_to_json(labels) ==
    [i \in 1..Len(labels) |-> [name |-> labels[i].name,
                               xy |-> <<labels[i].pos[1], labels[i].pos[2]>>]]

LabeledPerson_from_json(data) ==
    [i \in 1..Len(data) |-> [name |-> data[i].name,
                             pos |-> <<data[i].xy[1], data[i].xy[2]>>]]

\* to_arrays filling the slots in catalog order
to_arrays_catalog_order(labels) ==
    LET num_kpts == Len(names)
        get(name) == labels[CHOOSE k \in 1..Len(labels) : labels[k].name = name].pos
    IN [v |-> [i \in 1..num_kpts |->
                IF HasLabel(labels, names[i]) THEN 2 ELSE 0],
        xy |-> [j \in 1..(num_kpts * 2) |->
                LET name == names[(j + 1) \div 2]
                IN IF HasLabel(labels, name)
                   THEN get(name)[IF j % 2 = 1 THEN 1 ELSE 2]
                   ELSE 0]]

\* v[i] and xy[i*2], xy[i*2 + 1] of the code are v[i + 1] and xy[2i + 1],
\* xy[2i + 2] here; the arrays are np.uint32, which holds a pixel position
\* (a non-negative int below 2^32) as it is
to_arrays(labels) ==
    LET num_kpts == Len(keypoint_names)
        get(name) == labels[CHOOSE k \in 1..Len(labels) : labels[k].name = name].pos
    IN [v |-> [i \in 1..num_kpts |->
                IF HasLabel(labels, keypoint_names[i]) THEN 2 ELSE 0],
        xy |-> [j \in 1..(num_kpts * 2) |->
                LET name == keypoint_names[(j + 1) \div 2]
                IN IF HasLabel(labels, name)
                   THEN get(name)[IF j % 2 = 1 THEN 1 ELSE 2]
                   ELSE 0]]

-----------------------------------------------------------------------------
(* Persons *)

Persons_init(plist) ==
    [persons |-> plist,
     active_person_idx |-> IF Len(plist) > 0 THEN 0 ELSE None]

\* The slots below are written over a record s of the program's fields, plus
\* end (how the slot ended: "returned", "warned" if it logged a warning or an
\* error and returned early, else the exception raised) and loaded (whether
\* goto_image ran to its end).
Program ==
    [image_fpaths |-> image_fpaths, files |-> files,
     current_image_idx |-> current_image_idx,
     current_image_fpath |-> current_image_fpath,
     dataset |-> dataset, persons_heap |-> persons_heap,
     person_heap |-> person_heap, image_widget |-> image_widget,
     person_selector |-> person_selector, image_selector |-> image_selector,
     keypoint_button |-> keypoint_button, dataset_file |-> dataset_file,
     end |-> "returned", loaded |-> FALSE]

Raise(s, e) == [s EXCEPT !.end = e]

Warn(s) == [s EXCEPT !.end = "warned"]

\* the displayed Persons object and its list of LabeledPerson ids
Shown(s) == s.persons_heap[s.image_widget]

Persons_new(s) ==
    LET p == NewId(s.person_heap)
        plist == Append(Shown(s).persons, p)
    IN [s EXCEPT !.person_heap = DictPut(@, p, <<>>),
                 !.persons_heap[s.image_widget] =
                     [persons |-> plist, active_person_idx |-> Len(plist) - 1]]

\* Persons.delete without line 146: the active index is not reset
Persons_delete_keeps_active(s, idx) ==
    LET plist == Shown(s).persons
    IN IF ~InRange(idx, Len(plist)) THEN Raise(s, "IndexError")
       ELSE LET rest == ListDel(plist, idx)
            IN [s EXCEPT !.persons_heap[s.image_widget] =
                    [persons |-> rest,
                     active_person_idx |-> IF Len(rest) < 1 THEN None
                                           ELSE Shown(s).active_person_idx]]

Persons_delete(s, idx) ==
    LET plist == Shown(s).persons
    IN IF ~InRange(idx, Len(plist)) THEN Raise(s, "IndexError")
       ELSE LET rest == ListDel(plist, idx)
            IN [s EXCEPT !.persons_heap[s.image_widget] =
                    [persons |-> rest,
                     active_person_idx |-> IF Len(rest) < 1 THEN None ELSE 0]]

Dataset_get(s, fname) ==
    IF fname \in DOMAIN s.dataset THEN s.dataset[fname] ELSE None

LabeledImage_new(s, persons) ==
    IF persons = None
    THEN LET id == NewId(s.persons_heap)
         IN [s EXCEPT !.persons_heap = DictPut(@, id, Persons_init(<<>>)),
                      !.image_widget = id]
    ELSE [s EXCEPT !.image_widget = persons]

refresh_person_selector(s) ==
    LET n == Len(Shown(s).persons)
    IN [s EXCEPT !.person_selector =
            [count |-> n, index |-> IF n > 0 THEN 0 ELSE -1]]

-----------------------------------------------------------------------------
(* LabelWidget *)

labeled_persons(s) ==
    SelectSeq(Shown(s).persons, LAMBDA p : Len(s.person_heap[p]) > 0)

\* cache_current_labels without the test of line 380
cache_current_labels_always(s) ==
    IF s.current_image_fpath = None THEN s
    ELSE LET id == NewId(s.persons_heap)
         IN [s EXCEPT
               !.persons_heap = DictPut(@, id, Persons_init(labeled_persons(s))),
               !.dataset = DictPut(@, s.current_image_fpath, id)]

\* cache_current_labels storing the labeled persons last to first
cache_current_labels_reversed(s) ==
    IF s.current_image_fpath = None THEN s
    ELSE IF Len(labeled_persons(s)) > 0
         THEN LET id == NewId(s.persons_heap)
                  n == Len(labeled_persons(s))
              IN [s EXCEPT
                    !.persons_heap = DictPut(@, id,
                        Persons_init([i \in 1..n |-> labeled_persons(s)[n + 1 - i]])),
                    !.dataset = DictPut(@, s.current_image_fpath, id)]
         ELSE s

\* cache_current_labels storing every displayed person, not the labeled ones
cache_current_labels_all(s) ==
    IF s.current_image_fpath = None THEN s
    ELSE IF Len(labeled_persons(s)) > 0
         THEN LET id == NewId(s.persons_heap)
              IN [s EXCEPT
                    !.persons_heap = DictPut(@, id, Persons_init(Shown(s).persons)),
                    !.dataset = DictPut(@, s.current_image_fpath, id)]
         ELSE s

cache_current_labels(s) ==
    IF s.current_image_fpath = None THEN s
    ELSE IF Len(labeled_persons(s)) > 0
         THEN LET id == NewId(s.persons_heap)
              IN [s EXCEPT
                    !.persons_heap = DictPut(@, id, Persons_init(labeled_persons(s))),
                    !.dataset = DictPut(@, s.current_image_fpath, id)]
         ELSE s

\* lines 396-397 left out
new_person_never(s) == s

\* lines 396-397: an image shown without a person gets an empty one
new_person_if_none(s) ==
    IF Len(Shown(s).persons) < 1 THEN Persons_new(s) ELSE s

\* goto_image looking the image up before it flushes
goto_image_flushes_late(s, image_idx) ==
    LET idx == IF image_idx = None THEN s.current_image_idx ELSE image_idx
        s2 == [s EXCEPT !.current_image_idx = idx]
        n == Len(s.image_fpaths)
    IN IF ~InRange(idx, n) THEN Raise(s2, "IndexError")
       ELSE LET fpath == s.image_fpaths[Norm(idx, n)]
                s1 == cache_current_labels(s2)
                s3 == [s1 EXCEPT !.current_image_fpath = fpath]
                s4 == LabeledImage_new(s3, Dataset_get(s3, fpath))
                s5 == new_person_if_none(s4)
                s6 == refresh_person_selector(s5)
            IN [s6 EXCEPT !.keypoint_button = 0, !.loaded = TRUE]

goto_image(s, image_idx) ==
    LET idx == IF image_idx = None THEN s.current_image_idx ELSE image_idx
        s1 == cache_current_labels(s)
        s2 == [s1 EXCEPT !.current_image_idx = idx]
        n == Len(s.image_fpaths)
    IN IF ~InRange(idx, n) THEN Raise(s2, "IndexError")
       ELSE LET fpath == s.image_fpaths[Norm(idx, n)]
                s3 == [s2 EXCEPT !.current_image_fpath = fpath]
                s4 == LabeledImage_new(s3, Dataset_get(s3, fpath))
                s5 == new_person_if_none(s4)
                s6 == refresh_person_selector(s5)
            IN [s6 EXCEPT !.keypoint_button = 0, !.loaded = TRUE]

jump_image(s, jump) ==
    IF s.current_image_idx = None THEN goto_image(s, 0)
    ELSE goto_image(s, s.current_image_idx + jump)

next_image(s) == jump_image(s, 1)

last_image(s) ==
    IF s.current_image_idx = None THEN Raise(s, "TypeError")
    ELSE IF s.current_image_idx < 1 THEN Warn(s)
    ELSE jump_image(s, -1)

\* the last i in range(current_image_idx + 1, len(image_fpaths)) whose name
\* is not in the dataset, instead of the first
LastUnlabeled(s) ==
    LET cand == { i \in (s.current_image_idx + 1)..(Len(s.image_fpaths) - 1) :
                    s.image_fpaths[i + 1] \notin DOMAIN s.dataset }
    IN IF cand = {} THEN None
       ELSE CHOOSE i \in cand : \A j \in cand : i >= j

\* the first i in range(current_image_idx + 1, len(image_fpaths)) whose name
\* is not in the dataset, or None
FirstUnlabeled(s) ==
    LET cand == { i \in (s.current_image_idx + 1)..(Len(s.image_fpaths) - 1) :
                    s.image_fpaths[i + 1] \notin DOMAIN s.dataset }
    IN IF cand = {} THEN None
       ELSE CHOOSE i \in cand : \A j \in cand : i <= j

nextunlabeled_image(s) ==
    IF s.current_image_idx = None THEN Raise(s, "TypeError")
    ELSE IF FirstUnlabeled(s) = None THEN Warn(s)
    ELSE goto_image(s, FirstUnlabeled(s))

Persons_to_json(s, id) ==
    [i \in 1..Len(s.persons_heap[id].persons) |->
        LabeledPerson_to_json(s.person_heap[s.persons_heap[id].persons[i]])]

Dataset_to_json(s) ==
    [k \in DOMAIN s.dataset |-> Persons_to_json(s, s.dataset[k])]

\* save_dataset writing the file before it flushes
save_dataset_writes_first(s) ==
    LET s1 == IF watch_file THEN [s EXCEPT !.dataset_file = <<Dataset_to_json(s)>>]
              ELSE s
    IN cache_current_labels(s1)

save_dataset(s) ==
    LET s1 == cache_current_labels(s)
    IN IF watch_file THEN [s1 EXCEPT !.dataset_file = <<Dataset_to_json(s1)>>]
       ELSE s1

select_next_kpt_button(s, i) ==
    IF i # None THEN [s EXCEPT !.keypoint_button = i]
    ELSE [s EXCEPT !.keypoint_button =
            IF @ + 1 = Len(names) THEN 0 ELSE @ + 1]

\* the object persons.active_person returns; None if no person is active
active_person(s) ==
    IF Shown(s).active_person_idx = None THEN None
    ELSE Shown(s).persons[Norm(Shown(s).active_person_idx, Len(Shown(s).persons))]

image_click(s, pos) ==
    IF Shown(s).active_person_idx = None THEN Warn(s)
    ELSE LET s1 == [s EXCEPT !.person_heap[active_person(s)] =
                        LabeledPerson_setitem(@, names[s.keypoint_button + 1], pos)]
         IN select_next_kpt_button(s1, None)

\* stache_img loading the image after the one now at the cursor
stache_img_skips(s) ==
    LET name == s.current_image_fpath
        idx == s.current_image_idx
    IN IF name \notin s.files THEN Raise(s, "FileNotFoundError")
       ELSE LET s1 == [s EXCEPT !.files = @ \ {name}]
            IN IF ~InRange(idx, Len(s.image_fpaths)) THEN Raise(s1, "IndexError")
               ELSE LET s2 == [s1 EXCEPT !.image_fpaths = ListDel(@, idx)]
                        s3 == IF name \in DOMAIN s2.dataset
                              THEN [s2 EXCEPT !.dataset = DictDel(@, name)]
                              ELSE s2
                    IN goto_image(s3, idx + 1)

stache_img(s) ==
    LET name == s.current_image_fpath
        idx == s.current_image_idx
    IN IF name \notin s.files THEN Raise(s, "FileNotFoundError")
       ELSE LET s1 == [s EXCEPT !.files = @ \ {name}]
            IN IF ~InRange(idx, Len(s.image_fpaths)) THEN Raise(s1, "IndexError")
               ELSE LET s2 == [s1 EXCEPT !.image_fpaths = ListDel(@, idx)]
                        s3 == IF name \in DOMAIN s2.dataset
                              THEN [s2 EXCEPT !.dataset = DictDel(@, name)]
                              ELSE s2
                    IN goto_image(s3, None)

add_person(s) ==
    LET s1 == Persons_new(s)
        idx == Shown(s1).active_person_idx
        s2 == refresh_person_selector(s1)
        s3 == [s2 EXCEPT !.person_selector.index = idx]
    IN select_next_kpt_button(s3, 0)

delete_person(s) ==
    LET idx == s.person_selector.index
        s1 == Persons_delete(s, idx)
    IN IF s1.end # "returned" THEN s1
       ELSE refresh_person_selector(
                [s1 EXCEPT !.person_selector.index =
                    IF s1.person_selector.count > 0 THEN 0 ELSE @])

clear(s) ==
    IF active_person(s) = None THEN Raise(s, "AttributeError")
    ELSE [s EXCEPT !.person_heap[active_person(s)] = <<>>,
                   !.keypoint_button = 0]

pop(s) ==
    LET iprev == IF s.keypoint_button - 1 > 0 THEN s.keypoint_button - 1 ELSE 0
        name == names[iprev + 1]
    IN IF active_person(s) = None THEN Raise(s, "AttributeError")
       ELSE [s EXCEPT !.person_heap[active_person(s)] =
                        IF HasLabel(@, name) THEN LabeledPerson_remove(@, name) ELSE @,
                      !.keypoint_button = iprev]

-----------------------------------------------------------------------------
(* Dataset.from_json: every Persons and LabeledPerson of the file becomes a *)
(* fresh object.                                                            *)

RECURSIVE SumLen(_, _)
SumLen(json, ks) ==
    IF ks = {} THEN 0
    ELSE LET k == CHOOSE x \in ks : TRUE
         IN Len(json[k]) + SumLen(json, ks \ {k})

Dataset_from_json(s, json) ==
    LET ks == DOMAIN json
        rank(k) == Cardinality({ j \in ks : j <= k })
        base(k) == SumLen(json, { j \in ks : j < k })
        keyOf(q) == CHOOSE k \in ks : rank(k) = q
        ownerOf(p) == CHOOSE k \in ks : base(k) < p /\ p <= base(k) + Len(json[k])
    IN [s EXCEPT
          !.dataset = [k \in ks |-> rank(k)],
          !.persons_heap =
              [q \in 1..Cardinality(ks) |->
                  Persons_init([i \in 1..Len(json[keyOf(q)]) |-> base(keyOf(q)) + i])],
          !.person_heap =
              [p \in 1..SumLen(json, ks) |->
                  LabeledPerson_from_json(json[ownerOf(p)][p - base(ownerOf(p))])]]

\* LabelWidget.__init__: load the dataset if the file exists, then next_image()
LabelWidget_init(s) ==
    LET s1 == IF s.dataset_file = <<>> THEN s
              ELSE Dataset_from_json(s, s.dataset_file[1])
    IN next_image(s1)

-----------------------------------------------------------------------------
(* Objects no field references any longer are freed.  Object identities    *)
(* carry no meaning beyond equality, so the live objects are renumbered in  *)
(* the order in which the dataset (by key) and then the widget reach them.  *)

\* seq without repetitions, each element at its first occurrence
RECURSIVE Dedup(_)
Dedup(seq) ==
    IF seq = <<>> THEN <<>>
    ELSE LET d == Dedup(SubSeq(seq, 1, Len(seq) - 1))
         IN IF seq[Len(seq)] \in Range(d) THEN d ELSE Append(d, seq[Len(seq)])

IndexOf(seq, x) == CHOOSE i \in 1..Len(seq) : seq[i] = x

SortedKeys(d) ==
    [i \in 1..Cardinality(DOMAIN d) |->
        CHOOSE k \in DOMAIN d : Cardinality({ j \in DOMAIN d : j <= k }) = i]

RECURSIVE Flatten(_)
Flatten(seqs) ==
    IF seqs = <<>> THEN <<>> ELSE Head(seqs) \o Flatten(Tail(seqs))

\* the live Persons objects, in the order dataset (by key), widget
LivePersons(s) ==
    Dedup([i \in 1..Cardinality(DOMAIN s.dataset) |->
                s.dataset[SortedKeys(s.dataset)[i]]]
          \o (IF s.image_widget = None THEN <<>> ELSE <<s.image_widget>>))

Renumber(s, roots, flat) ==
    [s EXCEPT
       !.dataset = [k \in DOMAIN s.dataset |-> IndexOf(roots, s.dataset[k])],
       !.image_widget = IF @ = None THEN None ELSE IndexOf(roots, @),
       !.persons_heap =
           [c \in 1..Len(roots) |->
               [persons |-> [i \in 1..Len(s.persons_heap[roots[c]].persons) |->
                                IndexOf(flat, s.persons_heap[roots[c]].persons[i])],
                active_person_idx |-> s.persons_heap[roots[c]].active_person_idx]],
       !.person_heap = [c \in 1..Len(flat) |-> s.person_heap[flat[c]]]]

Collect(s) ==
    LET roots == LivePersons(s)
        flat == Dedup(Flatten([i \in 1..Len(roots) |->
                                  s.persons_heap[roots[i]].persons]))
    IN Renumber(s, roots, flat)

-----------------------------------------------------------------------------
(* History kept for the properties *)

\* the label mapping of every displayed person, in order
ShownLabels(s) ==
    [i \in 1..Len(Shown(s).persons) |-> Range(s.person_heap[Shown(s).persons[i]])]

\* the label mappings of the displayed persons that have a label, in order
LabeledLabels(s) ==
    [i \in 1..Len(labeled_persons(s)) |-> Range(s.person_heap[labeled_persons(s)[i]])]

HasLabeled(s) == s.image_widget # None /\ Len(labeled_persons(s)) > 0

\* left_labels after slot op took the program from s to t
Left(s, t, op) ==
    IF ~t.loaded THEN left_labels
    ELSE LET k == s.current_image_fpath
             snap == IF k = None \/ op = "stache_img" THEN left_labels
                     ELSE IF HasLabeled(s) THEN DictPut(left_labels, k, LabeledLabels(s))
                     ELSE DictDel(left_labels, k)
         IN snap

\* whether the image loaded by the slot came back as it was left
Back(s, t, op) ==
    IF t.loaded /\ t.current_image_fpath # s.current_image_fpath
                /\ t.current_image_fpath \in DOMAIN Left(s, t, op)
    THEN IF ShownLabels(t) = Left(s, t, op)[t.current_image_fpath]
         THEN "same" ELSE "differs"
    ELSE "none"

\* the slots that call goto_image; last.from is the cursor they started from
Navigations ==
    {"next_image", "last_image", "nextunlabeled_image", "goto_image", "stache_img"}

\* the program's fields alone
Fields(s) ==
    <<s.image_fpaths, s.files, s.current_image_idx, s.current_image_fpath,
      s.dataset, s.persons_heap, s.person_heap, s.image_widget,
      s.person_selector, s.image_selector, s.keypoint_button, s.dataset_file>>

Return(result, op) ==
    \E t \in {result} : \E c \in {Collect(t)} : \E s \in {Program} :
       /\ image_fpaths' = c.image_fpaths
       /\ files' = c.files
       /\ current_image_idx' = c.current_image_idx
       /\ current_image_fpath' = c.current_image_fpath
       /\ dataset' = c.dataset
       /\ persons_heap' = c.persons_heap
       /\ person_heap' = c.person_heap
       /\ image_widget' = c.image_widget
       /\ person_selector' = c.person_selector
       /\ image_selector' = c.image_selector
       /\ keypoint_button' = c.keypoint_button
       /\ dataset_file' = c.dataset_file
       /\ watch_file' = watch_file
       /\ left_labels' = IF t.loaded
                         THEN DictDel(Left(s, t, op), t.current_image_fpath)
                         ELSE left_labels
       /\ pc' = "ready"
       /\ last' = IF Fields(c) = Fields(s) THEN last
                  ELSE [op |-> op, end |-> t.end,
                        from |-> IF op \in Navigations THEN s.current_image_idx
                                 ELSE None,
                        back |-> Back(s, t, op)]
       /\ UNCHANGED <<person, pset, out>>

-----------------------------------------------------------------------------
(* Initial state: __init__ up to line 249.  The file a save writes is read  *)
(* only by the next session's __init__, so Spec and SpecPersons start       *)
(* without a file and do not keep what is written; SpecFile starts with or  *)
(* without a file of an earlier session and keeps every write.              *)

EarlierFile ==
    [k \in {2} |-> << << [name |-> "nose", xy |-> <<0, 1>>] >> >>]

InitWith(n, file, watch) ==
    /\ image_fpaths = [i \in 1..n |-> i]
    /\ files = 1..n
    /\ current_image_idx = None
    /\ current_image_fpath = None
    /\ dataset = <<>>
    /\ persons_heap = <<>>
    /\ person_heap = <<>>
    /\ image_widget = None
    /\ person_selector = [count |-> 0, index |-> -1]
    /\ image_selector = [count |-> n, index |-> IF n > 0 THEN 0 ELSE -1]
    /\ keypoint_button = None
    /\ dataset_file = file
    /\ watch_file = watch
    /\ left_labels = <<>>
    /\ pc = "init"
    /\ last = [op |-> "none", end |-> "returned", from |-> None, back |-> "none"]
    /\ person = <<>>
    /\ pset = Persons_init(<<>>)
    /\ out = [op |-> "none"]

Init == InitWith(MaxImages, <<>>, FALSE)

InitPersons == InitWith(MaxImages - 1, <<>>, FALSE)

InitFile ==
    \E file \in {<<>>, <<EarlierFile>>} : InitWith(MaxImages - 1, file, TRUE)

-----------------------------------------------------------------------------
(* Actions: one per slot *)

Construct ==
    /\ pc = "init"
    /\ Return(LabelWidget_init(Program), "__init__")

NextImage ==
    /\ pc = "ready"
    /\ current_image_idx < Len(image_fpaths) - 1 + MaxOverrun
    /\ Return(next_image(Program), "next_image")

LastImage ==
    /\ pc = "ready"
    /\ Return(last_image(Program), "last_image")

NextUnlabeledImage ==
    /\ pc = "ready"
    /\ Return(nextunlabeled_image(Program), "nextunlabeled_image")

\* image_selector.currentIndexChanged: the user picks another item
GotoImage ==
    /\ pc = "ready"
    /\ \E i \in 0..(image_selector.count - 1) :
        /\ i # image_selector.index
        /\ Return(goto_image([Program EXCEPT !.image_selector.index = i], i),
                  "goto_image")

StacheImg ==
    /\ pc = "ready"
    /\ Return(stache_img(Program), "stache_img")

AddPerson(cap) ==
    /\ pc = "ready"
    /\ Len(Shown(Program).persons) < cap
    /\ Return(add_person(Program), "add_person")

DeletePerson ==
    /\ pc = "ready"
    /\ Return(delete_person(Program), "delete_person")

\* the user picks another item of person_selector; no slot is connected
SelectPerson ==
    /\ pc = "ready"
    /\ \E i \in 0..(person_selector.count - 1) :
        /\ i # person_selector.index
        /\ Return([Program EXCEPT !.person_selector.index = i], "edit")

\* the user checks another keypoint radio button
SelectKeypoint ==
    /\ pc = "ready"
    /\ \E i \in 0..(MaxKpt - 1) :
        /\ i # keypoint_button
        /\ Return([Program EXCEPT !.keypoint_button = i], "edit")

ImageClick ==
    /\ pc = "ready"
    /\ keypoint_button < MaxKpt
    /\ \E pos \in ClickPositions :
        Return(image_click(Program, pos), "edit")

Clear ==
    /\ pc = "ready"
    /\ Return(clear(Program), "edit")

Pop ==
    /\ pc = "ready"
    /\ Return(pop(Program), "edit")

SaveDataset ==
    /\ pc = "ready"
    /\ Return(save_dataset(Program), "save_dataset")

Slots(cap) ==
    \/ Construct
    \/ NextImage
    \/ LastImage
    \/ NextUnlabeledImage
    \/ GotoImage
    \/ StacheImg
    \/ AddPerson(cap)
    \/ DeletePerson
    \/ SelectKeypoint
    \/ ImageClick
    \/ Pop
    \/ Clear
    \/ SaveDataset

\* MaxImages images, one person fewer than MaxPersons
Next == Slots(MaxPersons - 1)

Spec == Init /\ [][Next]_vars

\* one image fewer, MaxPersons persons
NextPersons == Slots(MaxPersons) \/ SelectPerson

SpecPersons == InitPersons /\ [][NextPersons]_vars

\* as Spec with one image fewer, and the file kept
SpecFile == InitFile /\ [][Next]_vars

-----------------------------------------------------------------------------
(* Properties *)

\* the label mappings of the persons of a Dataset entry, in order
EntryLabels(s, k) ==
    [i \in 1..Len(s.persons_heap[s.dataset[k]].persons) |->
        Range(s.person_heap[s.persons_heap[s.dataset[k]].persons[i]])]

\* C1: every image key of the Dataset maps to a PersonSet that has at least
\* one person with at least one label.
C1_DatasetEntriesLabeled ==
    \A k \in DOMAIN dataset :
        \E i \in 1..Len(EntryLabels(Program, k)) : EntryLabels(Program, k)[i] # {}

\* an archive that ran to its end: the image left the working list and the
\* image now at the cursor was loaded
ArchiveSucceeds ==
    /\ StacheImg
    /\ Len(image_fpaths') < Len(image_fpaths)
    /\ last'.end = "returned"

\* C2: after archive_current succeeds on the image at the cursor, the Dataset
\* has no entry for the archived image.
C2_ArchivedImageNotInDataset ==
    [][ArchiveSucceeds => current_image_fpath \notin DOMAIN dataset']_vars

\* advance(delta) is requested and the resulting index is outside [0, length)
AdvanceOutOfRange ==
    \/ NextImage /\ current_image_idx + 1 \notin 0..(Len(image_fpaths) - 1)
    \/ LastImage /\ current_image_idx - 1 \notin 0..(Len(image_fpaths) - 1)

\* C3: an advance whose resulting index is outside [0, length) leaves the
\* cursor at the value it had before the call.
C3_FailedAdvanceKeepsCursor ==
    [][AdvanceOutOfRange => current_image_idx' = current_image_idx]_vars

\* C4: the cursor is either unset or a valid index into the working list.
C4_CursorValid ==
    current_image_idx = None
        \/ current_image_idx \in 0..(Len(image_fpaths) - 1)

\* the flush wrote the image being shown: its entry holds exactly the label
\* mappings of the displayed persons that have a label
Flushed ==
    /\ current_image_fpath \in DOMAIN dataset'
    /\ EntryLabels(Program', current_image_fpath) = LabeledLabels(Program)

\* the slots that always flush: save, advance(+1) and go to index
Flushing == SaveDataset \/ NextImage \/ GotoImage

\* C5: a flush writes the current image's key into the Dataset if and only if
\* a displayed person has a label: with a label the entry holds the labeled
\* persons; with none the key is neither added nor removed, and a save leaves
\* the whole Dataset as it was.
C5_FlushWritesIffLabeled ==
    [][Flushing =>
        IF HasLabeled(Program) THEN Flushed
        ELSE /\ current_image_fpath \in DOMAIN dataset'
                    <=> current_image_fpath \in DOMAIN dataset
             /\ SaveDataset => Dataset_to_json(Program') = Dataset_to_json(Program)
      ]_vars

\* C5 witness: a save flushed an image shown with a labeled and an unlabeled
\* person, and the entry holds fewer persons than are shown.
C5_Witness ==
    /\ last.op = "save_dataset"
    /\ HasLabeled(Program)
    /\ current_image_fpath \in DOMAIN dataset
    /\ Len(EntryLabels(Program, current_image_fpath)) < Len(Shown(Program).persons)

\* the flush completed in the outcome t of a slot run from the current state
FlushedIn(t) ==
    /\ current_image_fpath \in DOMAIN t.dataset
    /\ EntryLabels(t, current_image_fpath) = LabeledLabels(Program)

C7_NextUnlabeledIsSmallest ==
    [][NextUnlabeledImage =>
        LET unlabeled == { j \in (current_image_idx + 1)..(Len(image_fpaths) - 1) :
                             image_fpaths[j + 1] \notin DOMAIN dataset }
        IN IF unlabeled = {}
           THEN UNCHANGED <<current_image_idx, current_image_fpath, image_widget>>
           ELSE /\ current_image_idx' \in unlabeled
                /\ \A j \in unlabeled : current_image_idx' <= j
                /\ current_image_fpath' = image_fpaths[current_image_idx' + 1]
      ]_vars

\* C7 witness: from cursor 0 the search passed the labeled image at 1 and
\* stopped at 2.
C7_Witness ==
    /\ last.op = "nextunlabeled_image"
    /\ last.end = "returned"
    /\ last.from = 0
    /\ current_image_idx = 2
    /\ image_fpaths[2] \in DOMAIN dataset

\* C8 as claimed: whenever the cursor is set, the displayed PersonSet has at
\* least one person.
C8_ShownHasPerson ==
    current_image_idx # None => Len(Shown(Program).persons) >= 1

\* C8 as amended: when the last slot that changed the program loaded an image
\* (__init__, a navigation or an archive that ran to its end) or was
\* add_person, the displayed PersonSet has at least one person.
C8_LoadedHasPerson ==
    \/ last.op \in Navigations \cup {"__init__"} /\ last.end = "returned"
    \/ last.op = "add_person"
    => Len(Shown(Program).persons) >= 1

\* C8 witness: an archive loaded an image without a Dataset entry, which is
\* shown with one empty person.
C8_Witness ==
    /\ last.op = "stache_img"
    /\ last.end = "returned"
    /\ current_image_fpath \notin DOMAIN dataset
    /\ ShownLabels(Program) = << {} >>

\* C9: in every PersonSet the active index is unset exactly when there are no
\* persons and is otherwise a valid index; add_person makes the new last
\* person active, and a successful delete_person makes person 0 active if
\* persons remain and no person otherwise.
C9_ActiveIndexValid ==
    /\ \A q \in DOMAIN persons_heap :
        /\ persons_heap[q].active_person_idx = None
                <=> Len(persons_heap[q].persons) = 0
        /\ persons_heap[q].active_person_idx # None
                => persons_heap[q].active_person_idx
                        \in 0..(Len(persons_heap[q].persons) - 1)
    /\ last.op = "add_person"
        => Shown(Program).active_person_idx = Len(Shown(Program).persons) - 1
    /\ last.op = "delete_person" /\ last.end = "returned"
        => Shown(Program).active_person_idx =
                IF Len(Shown(Program).persons) > 0 THEN 0 ELSE None

\* C9 witness: delete_person removed one of two persons.
C9_Witness ==
    /\ last.op = "delete_person"
    /\ last.end = "returned"
    /\ Len(Shown(Program).persons) = 1
    /\ Shown(Program).active_person_idx = 0

\* C10: an image left with labels and shown again later, with no archive of
\* it in between, is loaded with exactly the labeled persons and the label
\* mappings it was left with.
C10_ReturnLoadsWhatWasLeft == last.back # "differs"

\* C10 witness: an image left with labels was loaded again as it was left.
C10_Witness ==
    /\ last.back = "same"
    /\ last.op \in Navigations
    /\ HasLabeled(Program)
    /\ ShownLabels(Program) = EntryLabels(Program, current_image_fpath)

\* the slots that edit the displayed image
Editing == ImageClick \/ Pop \/ Clear \/ AddPerson(MaxPersons) \/ DeletePerson

\* C11: setting or removing a label, clearing the active person, adding and
\* deleting a person leave the contents of the Dataset unchanged, also when
\* the displayed PersonSet was loaded from a Dataset entry.
C11_EditsKeepDataset ==
    [][Editing => Dataset_to_json(Program') = Dataset_to_json(Program)]_vars

-----------------------------------------------------------------------------
(* A LabeledPerson used on its own: the calls of its interface *)

program_vars ==
    <<image_fpaths, files, current_image_idx, current_image_fpath, dataset,
      persons_heap, person_heap, image_widget, person_selector,
      image_selector, keypoint_button, dataset_file, watch_file,
      left_labels, pc, last>>

\* the names and positions the calls are made with; "hat" is not a keypoint
LabelNames == { names[i] : i \in 1..MaxNames } \cup {"hat"}

LabelPositions == { <<x, x + 1>> : x \in 1..MaxXY }

Called(op, end, result) == [op |-> op, end |-> end, result |-> result]

SetItem ==
    /\ \E name \in LabelNames : \E pos \in LabelPositions :
        IF name \notin Range(names)
        THEN /\ out' = Called("__setitem__", "AssertionError", None)
             /\ UNCHANGED person
        ELSE /\ person' = LabeledPerson_setitem(person, name, pos)
             /\ out' = Called("__setitem__", "returned", None)
    /\ UNCHANGED <<program_vars, pset>>

Remove ==
    /\ \E name \in LabelNames :
        IF ~HasLabel(person, name)
        THEN /\ out' = Called("remove", "KeyError", None)
             /\ UNCHANGED person
        ELSE /\ person' = LabeledPerson_remove(person, name)
             /\ out' = Called("remove", "returned", None)
    /\ UNCHANGED <<program_vars, pset>>

ToArrays ==
    /\ out' = Called("to_arrays", "returned", to_arrays(person))
    /\ UNCHANGED <<program_vars, person, pset>>

RoundTrip ==
    /\ out' = Called("from_json", "returned",
                     LabeledPerson_from_json(LabeledPerson_to_json(person)))
    /\ UNCHANGED <<program_vars, person, pset>>

NextLabels == SetItem \/ Remove \/ ToArrays \/ RoundTrip

SpecLabels == Init /\ [][NextLabels]_vars

\* whether name is labeled in the label mapping of person, and where
Labeled(name) == \E e \in Range(person) : e.name = name

PositionOf(name) == (CHOOSE e \in Range(person) : e.name = name).pos

\* C12: to_arrays returns a visibility array of length 14 and a coordinate
\* array of length 28: slot i of the first is 2 if keypoint_names[i] is
\* labeled and 0 otherwise, slots 2i and 2i+1 of the second hold that label's
\* x and y if labeled and 0, 0 otherwise, whatever the order the labels were
\* set in.
C12_ExportArrays ==
    out.op = "to_arrays" =>
        /\ Len(out.result.v) = 14
        /\ Len(out.result.xy) = 28
        /\ \A i \in 1..14 :
            IF Labeled(keypoint_names[i])
            THEN /\ out.result.v[i] = 2
                 /\ out.result.xy[2 * i - 1] = PositionOf(keypoint_names[i])[1]
                 /\ out.result.xy[2 * i] = PositionOf(keypoint_names[i])[2]
            ELSE /\ out.result.v[i] = 0
                 /\ out.result.xy[2 * i - 1] = 0
                 /\ out.result.xy[2 * i] = 0

\* C12 witness: the arrays of a person labeled first with clubhead, then with
\* nose at another position.
C12_Witness ==
    /\ out.op = "to_arrays"
    /\ Len(person) = 2
    /\ person[1].name = "clubhead"
    /\ person[2].name = "nose"
    /\ person[1].pos # person[2].pos
    /\ out.result.v[1] = 2
    /\ out.result.v[12] = 2

\* C13: from_json(to_json(person)) has the label mapping of person, for every
\* person reached by set and remove calls.
C13_JsonRoundTrip ==
    out.op = "from_json" => Range(out.result) = Range(person)

\* C13 witness: the round trip of a person with two labels, made after a
\* label was removed.
C13_Witness ==
    /\ out.op = "from_json"
    /\ Len(person) = 2
    /\ person[1].name = "nose"
    /\ Range(out.result) = Range(person)

-----------------------------------------------------------------------------
(* Properties of archive, save and the cursor *)

\* what a load of image k shows, given the Dataset before the load: the
\* persons of the entry of k, or one empty person if there is no entry or
\* the entry has no persons
LoadedLabels(k) ==
    LET entry == IF k \in DOMAIN dataset THEN EntryLabels(Program, k) ELSE <<>>
    IN IF Len(entry) = 0 THEN << {} >> ELSE entry

\* C14: after archive_current on the image at position k of a working list
\* of length n with k < n-1, the working list is the old list without element
\* k, in the same order, the cursor is k and the image displayed is the one
\* that was at position k+1, loaded as advance loads it.
C14_ArchiveLoadsNext ==
    [][StacheImg /\ current_image_idx \in 0..(Len(image_fpaths) - 2) =>
        LET k == current_image_idx
            n == Len(image_fpaths)
        IN /\ image_fpaths' = SubSeq(image_fpaths, 1, k)
                                \o SubSeq(image_fpaths, k + 2, n)
           /\ current_image_idx' = k
           /\ current_image_fpath' = image_fpaths[k + 2]
           /\ ShownLabels(Program') = LoadedLabels(image_fpaths[k + 2])
      ]_vars

\* C14 witness: the first of three images was archived and the second, which
\* has a Dataset entry, is displayed with the labels of its entry.
C14_Witness ==
    /\ last.op = "stache_img"
    /\ last.end = "returned"
    /\ last.from = 0
    /\ image_fpaths = <<2, 3>>
    /\ current_image_idx = 0
    /\ current_image_fpath = 2
    /\ 2 \in DOMAIN dataset
    /\ HasLabeled(Program)

\* the Dataset that __init__ builds from the file of s is the Dataset of s:
\* the same image keys, each with the same persons and label mappings
FileIsDataset(s) ==
    /\ s.dataset_file # <<>>
    /\ LET loaded == Dataset_from_json(s, s.dataset_file[1])
       IN /\ DOMAIN loaded.dataset = DOMAIN s.dataset
          /\ \A k \in DOMAIN s.dataset : EntryLabels(loaded, k) = EntryLabels(s, k)

\* C15: save() flushes the current image and then persists the whole Dataset:
\* right after it the file, when loaded, yields a Dataset equal to the one in
\* memory, which holds the current image's labels if it has any.
C15_SaveRoundTrip ==
    current_image_idx # None =>
        /\ FileIsDataset(save_dataset(Program))
        /\ HasLabeled(Program) => FlushedIn(save_dataset(Program))

\* C15 witness: a save wrote a file that holds the labels of the image shown
\* beside the entry of another image.
C15_Witness ==
    /\ last.op = "save_dataset"
    /\ HasLabeled(Program)
    /\ dataset_file # <<>>
    /\ current_image_fpath \in DOMAIN dataset_file[1]
    /\ Cardinality(DOMAIN dataset_file[1]) = 2
    /\ FileIsDataset(Program)

-----------------------------------------------------------------------------
(* A Persons used on its own: new() and delete(idx) *)

\* pset as the Persons of a program that has nothing else
Alone ==
    [Program EXCEPT !.image_widget = 1,
                    !.persons_heap = << pset >>,
                    !.person_heap = [p \in Range(pset.persons) |-> <<>>]]

PersonsNew ==
    /\ Len(pset.persons) < MaxAlone
    /\ pset' = Shown(Persons_new(Alone))
    /\ out' = Called("new", "returned", Shown(Persons_new(Alone)).active_person_idx)
    /\ UNCHANGED <<program_vars, person>>

\* out.result is the index delete was called with
PersonsDelete ==
    /\ \E idx \in (0 - (MaxAlone + 1))..(MaxAlone + 1) :
        /\ pset' = Shown(Persons_delete(Alone, idx))
        /\ out' = Called("delete", Persons_delete(Alone, idx).end, idx)
    /\ UNCHANGED <<program_vars, person>>

NextAlone == PersonsNew \/ PersonsDelete

SpecAlone == Init /\ [][NextAlone]_vars

\* C16: delete_person(index) with an index that is not in [0, number of
\* persons) fails with an index-out-of-range error and leaves the person
\* sequence and the active index unchanged.
C16_InvalidDeleteFails ==
    [][PersonsDelete /\ out'.result \notin 0..(Len(pset.persons) - 1)
        => out'.end = "IndexError" /\ pset' = pset]_vars

-----------------------------------------------------------------------------
(* Properties of the flush and of navigation *)

\* C17: whenever the cursor is set, the image displayed, under whose name a
\* flush writes, is the element of the working list at the cursor.
C17_CurrentIsAtCursor ==
    current_image_idx # None =>
        /\ current_image_idx \in 0..(Len(image_fpaths) - 1)
        /\ current_image_fpath = image_fpaths[current_image_idx + 1]

\* the displayed persons that have a label, in the order they are displayed
ShownWithLabel ==
    SelectSeq(Shown(Program).persons, LAMBDA p : Len(person_heap[p]) > 0)

\* C18: when a flush writes an entry, the stored PersonSet is exactly the
\* displayed persons that have a label, in their displayed order, so every
\* person of the entry has a label.
C18_EntryIsLabeledPersons ==
    current_image_idx # None /\ Len(ShownWithLabel) > 0 =>
        LET t == save_dataset(Program)
            entry == t.persons_heap[t.dataset[current_image_fpath]]
        IN /\ entry.persons = ShownWithLabel
           /\ \A i \in 1..Len(entry.persons) : Len(t.person_heap[entry.persons[i]]) > 0

\* C18 witness: a save stored the second of two displayed persons, the first
\* having no label.
C18_Witness ==
    /\ last.op = "save_dataset"
    /\ Len(ShownLabels(Program)) = 2
    /\ ShownLabels(Program)[1] = {}
    /\ ShownLabels(Program)[2] # {}
    /\ current_image_fpath \in DOMAIN dataset
    /\ EntryLabels(Program, current_image_fpath) = << ShownLabels(Program)[2] >>

\* the slots that navigate
Navigating == NextImage \/ LastImage \/ NextUnlabeledImage \/ GotoImage

\* C19: a navigation changes at most the Dataset entry of the image being
\* left: the entries of all other image keys, and the working image list, are
\* unchanged by it.
C19_NavigationKeepsOtherEntries ==
    [][Navigating =>
        /\ image_fpaths' = image_fpaths
        /\ \A k \in (DOMAIN dataset \cup DOMAIN dataset') \ {current_image_fpath} :
            /\ k \in DOMAIN dataset
            /\ k \in DOMAIN dataset'
            /\ EntryLabels(Program', k) = EntryLabels(Program, k)
      ]_vars

====
